---- MODULE Spec2Model ----
(***************************************************************************)
(* useSnowfall: the snowfall controller of vue-snowfall.                   *)
(*                                                                         *)
(* One controller instance owns two interval handles, a style element, a   *)
(* lazily resolved container and a set of live flake elements.  The host   *)
(* (browser) owns the interval table, document.head, the containers and    *)
(* the flake elements with their animationend listeners.  Every public     *)
(* operation and every host callback runs to completion (single-threaded   *)
(* event loop), so each is one action.                                     *)
(***************************************************************************)
EXTENDS Integers, FiniteSets, Sequences, TLC

\* ------------------------------------------------------------------ bounds
\* Handles the host hands out for setInterval: 1..MaxTimerId (two per start).
MaxTimerId == 6
\* Elements document.createElement('div') hands out: 1..MaxFlakeId.
MaxFlakeId == 3
\* Math.random() is drawn from {k / RandomSteps : k \in 0 .. RandomSteps - 1}.
RandomSteps == 8
\* window.innerHeight and the non-default container's offsetHeight (pixels).
innerHeight == 11
offsetHeight == 10

\* ------------------------------------------------------- values of the host
\* JS null for references, attribute values and option values.
null == "null"
\* JS null for an interval handle; real handles are positive, hence truthy.
nullId == 0
\* maxFlakes = null (unlimited).
nullMax == -1
\* The pixel margin of the sweep (rect.top > containerHeight + 50).
SweepMargin == 50

Inst == {1, 2}
\* document.body and one other element of the document, <div id="box">.
body == "body"
box == "box"
Containers == {body, box}

\* The container option: a selector string, an element, or anything else.
ContainerOptions ==
    { [type |-> "string", value |-> "#box"],
      [type |-> "string", value |-> "#missing"],
      [type |-> "element", value |-> box],
      [type |-> "element", value |-> body],
      [type |-> "other", value |-> null] }

\* minSize/maxSize pairs: one that can round to 0, one that is always positive.
SizeOptions == { <<0, 1>>, <<1, 1>> }
MaxFlakesOptions == {nullMax, 0, 1, 2}

\* rect.top as getBoundingClientRect can report it for an attached flake,
\* around the two thresholds the sweep compares against.
TopSamples == (offsetHeight + SweepMargin) .. (innerHeight + SweepMargin + 1)

VARIABLES
    options,            \* options[i]: the destructured options of instance i
    flakeIntervalId,    \* [i]: handle of the spawn interval, or nullId
    cleanupIntervalId,  \* [i]: handle of the sweep interval, or nullId
    styleElement,       \* [i]: TRUE iff the instance holds a <style> element
    containerElement,   \* [i]: the cached container, or null
    activeFlakes,       \* [i]: the Set of tracked flake elements
    timers,             \* host: the outstanding intervals {[id, inst, callback]}
    nextTimerId,        \* host: the next handle setInterval returns
    headStyles,         \* host: [i] number of <style> elements of i in document.head
    parentNode,         \* host: [flake] container the flake is attached to, or null
    flakeOwner,         \* host: [flake] instance whose closure created the flake
    listeners,          \* host: flakes whose once-only animationend listener is pending
    stylePosition,      \* host: [container] inline style.position ("" when none)
    sheetPosition,      \* host: [container] position the stylesheets give
    positionAttr,       \* host: [container] data-vue-snowfall-position, or null
    authoredPosition,   \* host: [container] the inline position the page was written with
    positionWriter,     \* [container] the instance whose start wrote the record, or 0
    warnings,           \* host: [i] number of console.warn calls
    queries,            \* host: [i] number of document.querySelector calls
    chaos,              \* the chaos option of the instance whose drift is sampled
    xDeviation,         \* --snow-x of the last flake sampled, in 1/RandomSteps px
    xDeviationEnd,      \* --snow-x-end of the last flake sampled, in 1/RandomSteps px
    lastOp              \* the operation or callback the host ran last

progVars == <<options, flakeIntervalId, cleanupIntervalId, styleElement,
              containerElement, activeFlakes, timers, nextTimerId, headStyles,
              parentNode, flakeOwner, listeners, stylePosition, sheetPosition,
              positionAttr, warnings, queries>>
driftVars == <<chaos, xDeviation, xDeviationEnd>>
vars == <<progVars, authoredPosition, positionWriter, driftVars, lastOp>>

\* The whole state as one record, so that an operation is a function on it.
Cur ==
    [ options |-> options, flakeIntervalId |-> flakeIntervalId,
      cleanupIntervalId |-> cleanupIntervalId, styleElement |-> styleElement,
      containerElement |-> containerElement, activeFlakes |-> activeFlakes,
      timers |-> timers, nextTimerId |-> nextTimerId, headStyles |-> headStyles,
      parentNode |-> parentNode, flakeOwner |-> flakeOwner,
      listeners |-> listeners, stylePosition |-> stylePosition,
      sheetPosition |-> sheetPosition, positionAttr |-> positionAttr,
      warnings |-> warnings, queries |-> queries ]

Install(t) ==
    /\ options' = t.options
    /\ flakeIntervalId' = t.flakeIntervalId
    /\ cleanupIntervalId' = t.cleanupIntervalId
    /\ styleElement' = t.styleElement
    /\ containerElement' = t.containerElement
    /\ activeFlakes' = t.activeFlakes
    /\ timers' = t.timers
    /\ nextTimerId' = t.nextTimerId
    /\ headStyles' = t.headStyles
    /\ parentNode' = t.parentNode
    /\ flakeOwner' = t.flakeOwner
    /\ listeners' = t.listeners
    /\ stylePosition' = t.stylePosition
    /\ sheetPosition' = t.sheetPosition
    /\ positionAttr' = t.positionAttr
    /\ warnings' = t.warnings
    /\ queries' = t.queries

\* ------------------------------------------------------------ host helpers
\* document.querySelector: only "#box" matches an element.
querySelector(selector) == IF selector = "#box" THEN box ELSE null

\* window.getComputedStyle(c).position: the inline value wins over the sheets.
getComputedStyle(s, c) ==
    IF s.stylePosition[c] # "" THEN s.stylePosition[c] ELSE s.sheetPosition[c]

\* setInterval: registers the callback, the handle is s.nextTimerId.
setInterval(s, i, callback) ==
    [s EXCEPT !.timers = @ \cup {[id |-> s.nextTimerId, inst |-> i, callback |-> callback]},
              !.nextTimerId = @ + 1]

clearInterval(s, id) == [s EXCEPT !.timers = {t \in @ : t.id # id}]

\* ------------------------------------------------------------ the composable
\* Mutant: the if (!containerElement) check is missing, every call resolves.
getContainer_alwaysResolves(s, i) ==
    LET container == s.options[i].container IN
    IF container.type = "string"
    THEN LET found == querySelector(container.value)
             q == [s EXCEPT !.queries[i] = @ + 1] IN
         IF found = null
         THEN [q EXCEPT !.warnings[i] = @ + 1, !.containerElement[i] = body]
         ELSE [q EXCEPT !.containerElement[i] = found]
    ELSE IF container.type = "element"
    THEN [s EXCEPT !.containerElement[i] = container.value]
    ELSE [s EXCEPT !.containerElement[i] = body]

getContainer(s, i) ==
    IF s.containerElement[i] # null THEN s
    ELSE LET container == s.options[i].container IN
         IF container.type = "string"
         THEN LET found == querySelector(container.value)
                  q == [s EXCEPT !.queries[i] = @ + 1] IN
              IF found = null
              THEN [q EXCEPT !.warnings[i] = @ + 1, !.containerElement[i] = body]
              ELSE [q EXCEPT !.containerElement[i] = found]
         ELSE IF container.type = "element"
         THEN [s EXCEPT !.containerElement[i] = container.value]
         ELSE [s EXCEPT !.containerElement[i] = body]

addStyles(s, i) ==
    IF s.styleElement[i] THEN s
    ELSE [s EXCEPT !.styleElement[i] = TRUE, !.headStyles[i] = @ + 1]

\* Mutant: every style element in the head is removed, whoever injected it
\* (document.querySelectorAll('[data-vue-snowfall]')).
removeStyles_removesAll(s, i) ==
    IF s.styleElement[i]
    THEN [s EXCEPT !.headStyles = [j \in Inst |-> 0], !.styleElement[i] = FALSE]
    ELSE s

\* Mutant: the handle is dropped but the element stays in the head.
removeStyles_keepsElement(s, i) ==
    IF s.styleElement[i] THEN [s EXCEPT !.styleElement[i] = FALSE] ELSE s

removeStyles(s, i) ==
    IF s.styleElement[i]
    THEN [s EXCEPT !.headStyles[i] = @ - 1, !.styleElement[i] = FALSE]
    ELSE s

\* Mutant: the flake is detached but stays in the tracked set.
removeSnowflake_keepsTracked(s, i, flake) ==
    IF s.parentNode[flake] # null
    THEN [s EXCEPT !.parentNode[flake] = null]
    ELSE s

\* Mutant: a flake that is already detached releases the oldest tracked flake
\* in its place.
removeSnowflake_detachedPopsOldest(s, i, flake) ==
    IF s.parentNode[flake] # null
    THEN [s EXCEPT !.parentNode[flake] = null, !.activeFlakes[i] = @ \ {flake}]
    ELSE IF s.activeFlakes[i] = {} THEN s
    ELSE LET oldest == CHOOSE f \in s.activeFlakes[i] : \A g \in s.activeFlakes[i] : f <= g IN
         [s EXCEPT !.parentNode[oldest] = null, !.activeFlakes[i] = @ \ {oldest}]

removeSnowflake(s, i, flake) ==
    IF s.parentNode[flake] # null
    THEN [s EXCEPT !.parentNode[flake] = null, !.activeFlakes[i] = @ \ {flake}]
    ELSE s

\* flakes.forEach(removeSnowflake)
RECURSIVE forEachRemove(_, _, _)
forEachRemove(s, i, flakes) ==
    IF flakes = {} THEN s
    ELSE LET flake == CHOOSE f \in flakes : TRUE IN
         forEachRemove(removeSnowflake(s, i, flake), i, flakes \ {flake})

\* size is Math.round(random(minSize, maxSize)), drawn by the caller.
\* Mutant: the guard compares with > instead of >=.
atMaxFlakes_offByOne(s, i) ==
    /\ s.options[i].maxFlakes # nullMax
    /\ Cardinality(s.activeFlakes[i]) > s.options[i].maxFlakes

\* Mutant: the guard counts the flakes ever created, not the tracked ones.
atMaxFlakes_countsCreated(s, i) ==
    /\ s.options[i].maxFlakes # nullMax
    /\ Cardinality(DOMAIN s.parentNode) >= s.options[i].maxFlakes

\* maxFlakes !== null && activeFlakes.size >= maxFlakes
atMaxFlakes(s, i) ==
    /\ s.options[i].maxFlakes # nullMax
    /\ Cardinality(s.activeFlakes[i]) >= s.options[i].maxFlakes

\* Mutant: the flake is appended to the container but not added to the set.
createSnowflake_notTracked(s, i, flakeSize) ==
    IF atMaxFlakes(s, i) THEN s
    ELSE LET c == getContainer(s, i)
             containerEl == c.containerElement[i]
             snowflake == Cardinality(DOMAIN s.parentNode) + 1 IN
         IF flakeSize <= 0 THEN c
         ELSE [c EXCEPT !.parentNode = @ @@ (snowflake :> containerEl),
                        !.flakeOwner = @ @@ (snowflake :> i),
                        !.listeners = @ \cup {snowflake}]

\* Mutant: only a negative size is skipped (flakeSize < 0).
createSnowflake_zeroSize(s, i, flakeSize) ==
    IF atMaxFlakes(s, i) THEN s
    ELSE LET c == getContainer(s, i)
             containerEl == c.containerElement[i]
             snowflake == Cardinality(DOMAIN s.parentNode) + 1 IN
         IF flakeSize < 0 THEN c
         ELSE [c EXCEPT !.parentNode = @ @@ (snowflake :> containerEl),
                        !.flakeOwner = @ @@ (snowflake :> i),
                        !.listeners = @ \cup {snowflake},
                        !.activeFlakes[i] = @ \cup {snowflake}]

createSnowflake(s, i, flakeSize) ==
    IF atMaxFlakes(s, i) THEN s
    ELSE LET c == getContainer(s, i)
             containerEl == c.containerElement[i]
             snowflake == Cardinality(DOMAIN s.parentNode) + 1 IN
         IF flakeSize <= 0 THEN c
         ELSE [c EXCEPT !.parentNode = @ @@ (snowflake :> containerEl),
                        !.flakeOwner = @ @@ (snowflake :> i),
                        !.listeners = @ \cup {snowflake},
                        !.activeFlakes[i] = @ \cup {snowflake}]

\* Mutant: a flake exactly 50 past the height is already stale (>=).
cleanupSnowflakes_staleAtMargin(s, i, top) ==
    IF Cardinality(s.activeFlakes[i]) = 0 THEN s
    ELSE LET c == getContainer(s, i)
             containerEl == c.containerElement[i]
             containerHeight == IF containerEl = body THEN innerHeight ELSE offsetHeight
             flakesToRemove == {f \in c.activeFlakes[i] : top[f] >= containerHeight + SweepMargin} IN
         forEachRemove(c, i, flakesToRemove)

\* top[f] is flake.getBoundingClientRect().top as measured in this tick.
cleanupSnowflakes(s, i, top) ==
    IF Cardinality(s.activeFlakes[i]) = 0 THEN s
    ELSE LET c == getContainer(s, i)
             containerEl == c.containerElement[i]
             containerHeight == IF containerEl = body THEN innerHeight ELSE offsetHeight
             flakesToRemove == {f \in c.activeFlakes[i] : top[f] > containerHeight + SweepMargin} IN
         forEachRemove(c, i, flakesToRemove)

\* Mutant: the set is cleared without detaching its flakes.
removeAllSnowflakes_onlyClears(s, i) == [s EXCEPT !.activeFlakes[i] = {}]

removeAllSnowflakes(s, i) ==
    LET r == forEachRemove(s, i, s.activeFlakes[i]) IN
    [r EXCEPT !.activeFlakes[i] = {}]

\* Mutant: the sweep interval is never cleared.
clearTimers_keepsSweep(s, i) ==
    IF s.flakeIntervalId[i] # nullId
    THEN [clearInterval(s, s.flakeIntervalId[i]) EXCEPT !.flakeIntervalId[i] = nullId]
    ELSE s

\* clearInterval of both handles, each nulled when it was set.
clearTimers(s, i) ==
    LET s1 == IF s.flakeIntervalId[i] # nullId
              THEN [clearInterval(s, s.flakeIntervalId[i]) EXCEPT !.flakeIntervalId[i] = nullId]
              ELSE s IN
    IF s1.cleanupIntervalId[i] # nullId
    THEN [clearInterval(s1, s1.cleanupIntervalId[i]) EXCEPT !.cleanupIntervalId[i] = nullId]
    ELSE s1

\* Puts the recorded inline position back and drops the record.
restorePosition(s, i) ==
    LET el == s.containerElement[i] IN
    IF el # null /\ el # body
    THEN LET originalPosition == s.positionAttr[el] IN
         IF originalPosition # null
         THEN [s EXCEPT !.stylePosition[el] =
                            IF originalPosition = "static" THEN "" ELSE originalPosition,
                        !.positionAttr[el] = null]
         ELSE s
    ELSE s

stopSnowflakes(s, i) ==
    restorePosition(removeStyles(removeAllSnowflakes(clearTimers(s, i), i), i), i)

\* Mutant: a start while running does not stop first.
restartIfRunning_skip(s, i) == s

\* if (flakeIntervalId) stopSnowflakes()
restartIfRunning(s, i) ==
    IF s.flakeIntervalId[i] # nullId THEN stopSnowflakes(s, i) ELSE s

\* Mutant: document.body is not exempt from the override.
overridePosition_noBodyCheck(s, i) ==
    LET c == getContainer(s, i)
        containerEl == c.containerElement[i] IN
    IF getComputedStyle(c, containerEl) = "static"
    THEN LET originalPosition == c.stylePosition[containerEl] IN
         [c EXCEPT !.stylePosition[containerEl] = "relative",
                   !.positionAttr[containerEl] =
                       IF originalPosition = "" THEN "static" ELSE originalPosition]
    ELSE c

\* Makes a static non-default container a positioning context and records
\* its inline position (originalPosition || 'static').
overridePosition(s, i) ==
    LET c == getContainer(s, i)
        containerEl == c.containerElement[i] IN
    IF containerEl # body /\ getComputedStyle(c, containerEl) = "static"
    THEN LET originalPosition == c.stylePosition[containerEl] IN
         [c EXCEPT !.stylePosition[containerEl] = "relative",
                   !.positionAttr[containerEl] =
                       IF originalPosition = "" THEN "static" ELSE originalPosition]
    ELSE c

\* Mutant: the sweep interval is registered but its handle is not kept.
scheduleTimers_dropsSweepHandle(s, i) ==
    LET s1 == [setInterval(s, i, "createSnowflake")
                  EXCEPT !.flakeIntervalId[i] = s.nextTimerId] IN
    setInterval(s1, i, "cleanupSnowflakes")

\* The two setInterval calls that end startSnowflakes.
scheduleTimers(s, i) ==
    LET s1 == [setInterval(s, i, "createSnowflake")
                  EXCEPT !.flakeIntervalId[i] = s.nextTimerId] IN
    [setInterval(s1, i, "cleanupSnowflakes")
        EXCEPT !.cleanupIntervalId[i] = s1.nextTimerId]

\* Mutant: the timers are scheduled but no flake is created by the start itself.
startSnowflakes_noFirstFlake(s, i, flakeSize) ==
    LET s1 == removeAllSnowflakes(restartIfRunning(s, i), i)
        s2 == overridePosition(addStyles(s1, i), i) IN
    scheduleTimers(s2, i)

startSnowflakes(s, i, flakeSize) ==
    LET s1 == removeAllSnowflakes(restartIfRunning(s, i), i)
        s2 == overridePosition(addStyles(s1, i), i) IN
    scheduleTimers(createSnowflake(s2, i, flakeSize), i)

\* ---------------------------------------------------------------- the drift
\* Mutant: chaos is defaulted with ||, so that 0 falls back to 50.
chaosMultiplier50_zeroIsDefault(c) ==
    LET given == IF c = 0 THEN 50 ELSE c
        capped == IF given < 100 THEN given ELSE 100 IN
    IF capped > 0 THEN capped ELSE 0

\* Mutant: the upper clamp is missing (Math.max(0, chaos) / 50).
chaosMultiplier50_noUpperClamp(c) == IF c > 0 THEN c ELSE 0

\* chaosMultiplier = Math.max(0, Math.min(100, chaos)) / 50, kept as its
\* numerator over 50 so that it stays an integer.
chaosMultiplier50(c) ==
    LET capped == IF c < 100 THEN c ELSE 100 IN
    IF capped > 0 THEN capped ELSE 0

\* maxDeviation = 100 * chaosMultiplier (a whole number for a whole chaos).
maxDeviation(c) == (100 * chaosMultiplier50(c)) \div 50

\* random(min, max) = Math.random() * (max - min) + min with Math.random()
\* = k / RandomSteps; the result is in units of 1 / RandomSteps.
random(min, max, k) == k * (max - min) + min * RandomSteps

\* xDeviation and xDeviationEnd as createSnowflake samples them; the halves
\* maxDeviation * 0.5 are whole because maxDeviation is even.
sampleX(c, k) == random(-maxDeviation(c), maxDeviation(c), k)
sampleXEnd(c, k) == random(-(maxDeviation(c) \div 2), maxDeviation(c) \div 2, k)

\* ------------------------------------------------------------------ actions
\* Math.round(random(minSize, maxSize)) for integer minSize <= maxSize.
SizeSamples(i) == options[i].minSize .. options[i].maxSize

\* The elements created so far.
Flakes == DOMAIN parentNode

\* Room for the two handles and the element a start may take.
CanStart == /\ nextTimerId + 1 <= MaxTimerId
            /\ Cardinality(Flakes) < MaxFlakeId

Running(i) == flakeIntervalId[i] # nullId

\* What lastOp records: the operation, its instance, the flake it created or
\* was dispatched to (0 when none), whether the instance was running before
\* it, and whether that flake was attached before it.
Op(op, i, flake, attached) ==
    [op |-> op, inst |-> i, flake |-> flake, running |-> Running(i), attached |-> attached]

\* Who wrote the record attribute that is on each container after an operation
\* of instance i: nobody when there is none, i when there was none at the
\* point mid of the operation (after the stop it begins with), else as before.
Writer(i, mid, t) ==
    [c \in Containers |->
        IF t.positionAttr[c] = null THEN 0
        ELSE IF mid.positionAttr[c] = null THEN i
        ELSE positionWriter[c]]

\* The flake an operation created, 0 when it created none.
Created(t) == IF DOMAIN t.parentNode = Flakes THEN 0 ELSE Cardinality(Flakes) + 1

StartSnowflakes(i) ==
    /\ CanStart
    /\ \E flakeSize \in SizeSamples(i) :
          LET t == startSnowflakes(Cur, i, flakeSize) IN
          /\ Install(t)
          /\ lastOp' = Op("start", i, Created(t), FALSE)
          /\ positionWriter' = Writer(i, restartIfRunning(Cur, i), t)
          /\ UNCHANGED <<authoredPosition, driftVars>>

StopSnowflakes(i) ==
    /\ Install(stopSnowflakes(Cur, i))
    /\ lastOp' = Op("stop", i, 0, FALSE)
    /\ positionWriter' = Writer(i, stopSnowflakes(Cur, i), stopSnowflakes(Cur, i))
    /\ UNCHANGED <<authoredPosition, driftVars>>

\* The host fires the spawn interval of instance i.
SpawnTick(i) ==
    /\ \E t \in timers : t.inst = i /\ t.callback = "createSnowflake"
    /\ Cardinality(Flakes) < MaxFlakeId
    /\ \E flakeSize \in SizeSamples(i) :
          LET t == createSnowflake(Cur, i, flakeSize) IN
          /\ Install(t)
          /\ lastOp' = Op("spawn", i, Created(t), FALSE)
          /\ UNCHANGED <<authoredPosition, positionWriter, driftVars>>

\* The host fires the sweep interval of instance i.
SweepTick(i) ==
    /\ \E t \in timers : t.inst = i /\ t.callback = "cleanupSnowflakes"
    /\ \E top \in [activeFlakes[i] -> TopSamples] : Install(cleanupSnowflakes(Cur, i, top))
    /\ lastOp' = Op("sweep", i, 0, FALSE)
    /\ UNCHANGED <<authoredPosition, positionWriter, driftVars>>

\* The host dispatches animationend to a flake; the listener is once-only.
AnimationEnd(flake) ==
    /\ flake \in listeners
    /\ Install([removeSnowflake(Cur, flakeOwner[flake], flake) EXCEPT !.listeners = @ \ {flake}])
    /\ lastOp' = Op("animationend", flakeOwner[flake], flake, parentNode[flake] # null)
    /\ UNCHANGED <<authoredPosition, positionWriter, driftVars>>

\* ---------------------------------------------------------- specifications
InitHost ==
    /\ flakeIntervalId = [i \in Inst |-> nullId]
    /\ cleanupIntervalId = [i \in Inst |-> nullId]
    /\ styleElement = [i \in Inst |-> FALSE]
    /\ containerElement = [i \in Inst |-> null]
    /\ activeFlakes = [i \in Inst |-> {}]
    /\ timers = {}
    /\ nextTimerId = 1
    /\ headStyles = [i \in Inst |-> 0]
    /\ parentNode = <<>>
    /\ flakeOwner = <<>>
    /\ listeners = {}
    /\ positionAttr = [c \in Containers |-> null]
    /\ positionWriter = [c \in Containers |-> 0]
    /\ warnings = [i \in Inst |-> 0]
    /\ queries = [i \in Inst |-> 0]
    /\ lastOp = [op |-> "new", inst |-> 0, flake |-> 0, running |-> FALSE, attached |-> FALSE]

\* The drift of a flake has no effect on the lifecycle: the lifecycle
\* specifications keep the default chaos and do not record the drift.
InitDrift == chaos = 50 /\ xDeviation = 0 /\ xDeviationEnd = 0

Options(container, maxFlakes, size) ==
    [container |-> container, maxFlakes |-> maxFlakes,
     minSize |-> size[1], maxSize |-> size[2]]

DefaultOptions == Options([type |-> "element", value |-> body], nullMax, <<1, 1>>)

\* One instance, any options, on a document whose box has any inline position.
Init ==
    /\ InitHost
    /\ \E c \in ContainerOptions, m \in MaxFlakesOptions, z \in SizeOptions :
          options = [i \in Inst |-> IF i = 1 THEN Options(c, m, z) ELSE DefaultOptions]
    /\ \E p \in {"", "static", "relative"} :
          stylePosition = [c \in Containers |-> IF c = box THEN p ELSE ""]
    /\ authoredPosition = stylePosition
    /\ InitDrift
    /\ \E p \in {"static", "absolute"} :
          sheetPosition = [c \in Containers |-> IF c = box THEN p ELSE "static"]

Next ==
    \/ StartSnowflakes(1)
    \/ StopSnowflakes(1)
    \/ SpawnTick(1)
    \/ SweepTick(1)
    \/ \E flake \in listeners : AnimationEnd(flake)

Spec == Init /\ [][Next]_vars

\* Two instances on one document: the first on the box (by selector) or on
\* document.body, the second on the box (by reference) or on a selector that
\* matches nothing, the first with or without a maximum.
InitTwo ==
    /\ InitHost
    /\ \E c1 \in { [type |-> "string", value |-> "#box"], [type |-> "element", value |-> body] },
          c2 \in { [type |-> "element", value |-> box], [type |-> "string", value |-> "#missing"] },
          m1 \in {nullMax, 1} :
          options = [i \in Inst |-> IF i = 1 THEN Options(c1, m1, <<1, 1>>)
                                              ELSE Options(c2, nullMax, <<1, 1>>)]
    /\ stylePosition = [c \in Containers |-> ""]
    /\ authoredPosition = stylePosition
    /\ InitDrift
    /\ sheetPosition = [c \in Containers |-> "static"]

NextTwo ==
    \/ \E i \in Inst : StartSnowflakes(i)
    \/ \E i \in Inst : StopSnowflakes(i)
    \/ \E i \in Inst : SpawnTick(i)
    \/ \E i \in Inst : SweepTick(i)
    \/ \E flake \in listeners : AnimationEnd(flake)

SpecTwo == InitTwo /\ [][NextTwo]_vars

\* ------------------------------------------------------------------- claims
\* The spawn and sweep intervals of instance i that the host still holds.
SpawnTimers(s, i) == {t \in s.timers : t.inst = i /\ t.callback = "createSnowflake"}
SweepTimers(s, i) == {t \in s.timers : t.inst = i /\ t.callback = "cleanupSnowflakes"}
\* The flakes of instance i that are attached to some container.
Attached(s, i) == {f \in DOMAIN s.parentNode : s.flakeOwner[f] = i /\ s.parentNode[f] # null}

\* What every stop must leave behind for instance i.
Stopped(s, i) ==
    /\ s.activeFlakes[i] = {}
    /\ Attached(s, i) = {}
    /\ ~s.styleElement[i] /\ s.headStyles[i] = 0
    /\ s.flakeIntervalId[i] = nullId /\ s.cleanupIntervalId[i] = nullId
    /\ SpawnTimers(s, i) = {} /\ SweepTimers(s, i) = {}

\* C1: stopSnowflakes is idempotent and safe in every state.  From every
\* reachable state (before any start, while running, after a stop) a stop
\* leaves the tracked set empty, no style element of the instance in the
\* head and both handles absent, and a second stop in a row changes nothing;
\* the state after a stop action is such a state.
C1_StopIdempotent ==
    /\ LET t == stopSnowflakes(Cur, 1) IN
       Stopped(t, 1) /\ stopSnowflakes(t, 1) = t
    /\ lastOp.op = "stop" => Stopped(Cur, 1) /\ stopSnowflakes(Cur, 1) = Cur

\* A stop that followed a stop-worthy run: the instance had started, spawned
\* flakes whose listeners are still pending, and is now stopped.
C1_Witness ==
    /\ lastOp.op = "stop" /\ lastOp.running
    /\ \E f \in Flakes : f \in listeners /\ parentNode[f] = null
    /\ containerElement[1] = box /\ stylePosition[box] = ""

\* C2: restart safety.  From every running state, for every sampled size,
\* startSnowflakes yields exactly the state that stopSnowflakes followed by
\* startSnowflakes yields: one style element, one spawn interval, one sweep
\* interval, every old tracked flake detached, the tracked set holding only
\* the flake the start spawned, and the same position override and record.
C2_RestartSafety ==
    Running(1) =>
        \A flakeSize \in SizeSamples(1) :
            LET a == startSnowflakes(Cur, 1, flakeSize)
                b == startSnowflakes(stopSnowflakes(Cur, 1), 1, flakeSize)
                new == Cardinality(Flakes) + 1 IN
            /\ a = b
            /\ a.headStyles[1] = 1 /\ a.styleElement[1]
            /\ Cardinality(SpawnTimers(a, 1)) = 1 /\ Cardinality(SweepTimers(a, 1)) = 1
            /\ \A f \in activeFlakes[1] : a.parentNode[f] = null
            /\ a.activeFlakes[1] \subseteq {new}
            /\ Attached(a, 1) = a.activeFlakes[1]
            /\ (flakeSize > 0 /\ options[1].maxFlakes # 0 => a.activeFlakes[1] = {new})

\* A start that ran while the instance was running with a tracked flake and
\* the position of the box overridden.
C2_Witness ==
    /\ lastOp.op = "start" /\ lastOp.running /\ lastOp.flake # 0
    /\ positionAttr[box] # null
    /\ \E f \in Flakes : f \in listeners /\ parentNode[f] = null
    /\ activeFlakes[1] = {lastOp.flake}

\* C3: maximum bound.  With maxFlakes = N the tracked set never holds more
\* than N flakes, and with N = 0 no flake is ever created.
C3_MaxFlakes ==
    options[1].maxFlakes # nullMax =>
        /\ Cardinality(activeFlakes[1]) <= options[1].maxFlakes
        /\ (options[1].maxFlakes = 0 => Flakes = {})

\* A spawn tick that found the tracked set at N = 2 with a positive size and
\* created nothing.
C3_Witness ==
    /\ options[1].maxFlakes = 2 /\ options[1].minSize = 1
    /\ lastOp.op = "spawn" /\ lastOp.flake = 0
    /\ Cardinality(activeFlakes[1]) = 2

\* The box is the resolved container and its position computed to static
\* when the page was written.
AuthoredStatic ==
    \/ authoredPosition[box] = "static"
    \/ authoredPosition[box] = "" /\ sheetPosition[box] = "static"

\* C4: position restoration round trip.  On a non-default container whose
\* computed position is static, whatever inline position it was written with
\* (none, or an explicit value such as 'static'), every sequence of start and
\* stop calls that ends with a stop leaves the inline position equal to the
\* written one and no record attribute on the container.
C4_PositionRoundTrip ==
    (lastOp.op = "stop" /\ containerElement[1] = box /\ AuthoredStatic) =>
        /\ stylePosition[box] = authoredPosition[box]
        /\ positionAttr[box] = null

\* C5: cleanup on completion.  The animationend callback of a flake leaves it
\* out of its container and out of every tracked set and touches no other
\* flake; when the flake was already detached (a sweep or a stop removed it
\* first) the callback changes nothing of the program.  A detached flake is
\* no longer tracked, so a later sweep cannot target it, and it is never
\* attached again: each flake is removed exactly once.
C5_RemovedOnce ==
    [][ /\ lastOp'.op = "animationend" =>
             LET f == lastOp'.flake IN
             /\ parentNode'[f] = null
             /\ \A i \in Inst : f \notin activeFlakes'[i]
             /\ \A g \in Flakes \ {f} : parentNode'[g] = parentNode[g]
             /\ activeFlakes' = [activeFlakes EXCEPT ![flakeOwner[f]] = @ \ {f}]
             /\ parentNode[f] = null =>
                    UNCHANGED <<options, flakeIntervalId, cleanupIntervalId, styleElement,
                                containerElement, activeFlakes, timers, nextTimerId,
                                headStyles, parentNode, flakeOwner, stylePosition,
                                sheetPosition, positionAttr, warnings, queries>>
        /\ \A f \in Flakes :
             parentNode[f] = null =>
                 /\ f \notin activeFlakes[flakeOwner[f]]
                 /\ parentNode'[f] = null
                 /\ f \notin activeFlakes'[flakeOwner[f]]
      ]_vars

\* The callback of a flake that a sweep had already removed, fired while
\* another flake is tracked: the instance was started once and never stopped.
C5_Witness ==
    /\ lastOp.op = "animationend" /\ ~lastOp.attached /\ lastOp.running
    /\ nextTimerId = 3 /\ Running(1)
    /\ activeFlakes[1] # {}

\* C6: after stopSnowflakes returns every flake of the instance is detached,
\* and until the next startSnowflakes no spawn tick or sweep tick runs and no
\* flake is created.
C6_StoppedStaysQuiet ==
    [][ ~Running(1) =>
           /\ Attached(Cur, 1) = {} /\ activeFlakes[1] = {}
           /\ SpawnTimers(Cur, 1) = {} /\ SweepTimers(Cur, 1) = {}
           /\ lastOp'.op # "start" =>
                 /\ lastOp'.op \notin {"spawn", "sweep"}
                 /\ DOMAIN parentNode' = Flakes
                 /\ Attached(Cur, 1)' = {}
      ]_vars

\* A callback that arrives after a stop that removed tracked flakes.
C6_Witness ==
    /\ ~Running(1) /\ lastOp.op = "animationend" /\ ~lastOp.running
    /\ Cardinality(Flakes) >= 2

\* C7: timer handles.  The two handles are both set or both absent, set after
\* a start and absent after a stop, and the host holds exactly the intervals
\* the handles name: never two spawn or two sweep intervals of one instance.
C7_TimerHandles ==
    /\ (flakeIntervalId[1] = nullId) <=> (cleanupIntervalId[1] = nullId)
    /\ lastOp.op = "start" => flakeIntervalId[1] # nullId /\ cleanupIntervalId[1] # nullId
    /\ lastOp.op = "stop" => flakeIntervalId[1] = nullId /\ cleanupIntervalId[1] = nullId
    /\ {t.id : t \in SpawnTimers(Cur, 1)} = {flakeIntervalId[1]} \ {nullId}
    /\ {t.id : t \in SweepTimers(Cur, 1)} = {cleanupIntervalId[1]} \ {nullId}
    /\ Cardinality(SpawnTimers(Cur, 1)) <= 1 /\ Cardinality(SweepTimers(Cur, 1)) <= 1

\* A third start in a row: the handles are the last two the host gave out.
C7_Witness ==
    /\ lastOp.op = "start" /\ lastOp.running
    /\ flakeIntervalId[1] = 5 /\ cleanupIntervalId[1] = 6
    /\ timers = { [id |-> 5, inst |-> 1, callback |-> "createSnowflake"],
                  [id |-> 6, inst |-> 1, callback |-> "cleanupSnowflakes"] }

\* C8: injected style.  The instance has one style element in the head exactly
\* while it is running and none otherwise, never two; addStyles changes
\* nothing when the instance already holds one.
C8_OneStyle ==
    /\ headStyles[1] = (IF Running(1) THEN 1 ELSE 0)
    /\ styleElement[1] <=> Running(1)
    /\ styleElement[1] => addStyles(Cur, 1) = Cur

\* A restart: the style element was removed and injected again.
C8_Witness ==
    /\ lastOp.op = "start" /\ lastOp.running /\ headStyles[1] = 1

\* C9: container fallback and caching.  With a selector that matches nothing
\* the cached container is document.body and console.warn ran exactly once,
\* at the resolution; for every option the container is resolved at most once
\* (one querySelector call at most) and never changes afterwards.
C9_ResolvedOnce ==
    [][ /\ queries'[1] <= 1 /\ warnings'[1] <= 1
        /\ options[1].container = [type |-> "string", value |-> "#missing"] =>
              /\ containerElement'[1] # null =>
                    containerElement'[1] = body /\ warnings'[1] = 1 /\ queries'[1] = 1
              /\ containerElement'[1] = null => warnings'[1] = 0
        /\ options[1].container.value # "#missing" => warnings'[1] = 0
        /\ containerElement[1] # null =>
              /\ containerElement'[1] = containerElement[1]
              /\ queries'[1] = queries[1] /\ warnings'[1] = warnings[1]
        /\ lastOp'.op \in {"start", "spawn", "sweep"} => containerElement'[1] # null
      ]_vars

\* Two start/stop cycles with spawn ticks on a selector that matches nothing.
C9_Witness ==
    /\ options[1].container.value = "#missing"
    /\ warnings[1] = 1 /\ containerElement[1] = body
    /\ nextTimerId = 5 /\ lastOp.op = "spawn" /\ Cardinality(Flakes) = 3

\* What instance i owns: its tracked set, handles and style element, the
\* intervals the host holds for it, and where each of its flakes is attached.
Owned(s, i) ==
    [ activeFlakes |-> s.activeFlakes[i],
      flakeIntervalId |-> s.flakeIntervalId[i],
      cleanupIntervalId |-> s.cleanupIntervalId[i],
      styleElement |-> s.styleElement[i],
      headStyles |-> s.headStyles[i],
      timers |-> {t \in s.timers : t.inst = i},
      attached |-> {<<f, s.parentNode[f]>> : f \in {g \in DOMAIN s.parentNode : s.flakeOwner[g] = i}} ]

\* C10: instance isolation.  An operation or callback of one instance leaves
\* what the other instance owns unchanged.
C10_Isolation ==
    [][ \A i \in Inst : lastOp'.inst # i => Owned(Cur, i)' = Owned(Cur, i) ]_vars

\* One instance stops while the other, on the same container, is running
\* with a tracked flake.
C10_Witness ==
    /\ lastOp.op = "stop" /\ lastOp.inst = 2 /\ lastOp.running
    /\ containerElement[1] = box /\ containerElement[2] = box
    /\ Running(1) /\ activeFlakes[1] # {} /\ headStyles[1] = 1
    /\ \E f \in Flakes : flakeOwner[f] = 2 /\ parentNode[f] = null

\* C11: stopSnowflakes restores the inline position and clears the record
\* attribute only for the instance that wrote the record: a stop of an
\* instance that did not write it (a second instance on the container of a
\* running first one included) leaves the container's inline position and
\* its record attribute as they were, and a stop of the instance that wrote
\* it clears it.
C11_RestoresOnlyOwnRecord ==
    [][ lastOp'.op = "stop" =>
           \A c \in Containers :
              /\ positionWriter[c] # lastOp'.inst =>
                    /\ stylePosition'[c] = stylePosition[c]
                    /\ positionAttr'[c] = positionAttr[c]
              /\ (positionWriter[c] = lastOp'.inst /\ positionWriter[c] # 0) =>
                    positionAttr'[c] = null
      ]_vars

\* startSnowflakes applied to the current state with a positive size and a
\* maximum that is absent or at least 1 tracks exactly the flake it creates,
\* attached to the resolved container.
StartSpawnsOne ==
    (options[1].maxFlakes = nullMax \/ options[1].maxFlakes >= 1) =>
        \A flakeSize \in {z \in SizeSamples(1) : z > 0} :
            LET t == startSnowflakes(Cur, 1, flakeSize)
                new == Cardinality(Flakes) + 1 IN
            /\ t.activeFlakes[1] = {new}
            /\ t.parentNode[new] = t.containerElement[1]
            /\ t.containerElement[1] # null

\* C12: startSnowflakes spawns one flake synchronously, from any prior state.
\* With maxFlakes = 1 a spawn tick leaves the tracked set as it is while that
\* flake is live, the set is empty once its animationend callback has run,
\* and a stop leaves no style element.
C12_StartSpawnsOne ==
    /\ StartSpawnsOne
    /\ (lastOp.op = "start" /\ lastOp.flake # 0) =>
          /\ activeFlakes[1] = {lastOp.flake}
          /\ parentNode[lastOp.flake] = containerElement[1]
    /\ options[1].maxFlakes = 1 =>
          /\ Cardinality(activeFlakes[1]) <= 1
          /\ activeFlakes[1] # {} =>
                /\ \A flakeSize \in SizeSamples(1) :
                      createSnowflake(Cur, 1, flakeSize).activeFlakes[1] = activeFlakes[1]
                /\ \A f \in activeFlakes[1] :
                      removeSnowflake(Cur, 1, f).activeFlakes[1] = {}
          /\ (lastOp.op = "animationend" /\ lastOp.attached) => activeFlakes[1] = {}
          /\ lastOp.op = "stop" => headStyles[1] = 0 /\ ~styleElement[1]

\* The end-to-end run: maxFlakes = 1 and a fixed positive size, one start, the
\* flake completed, then the stop.
C12_Witness ==
    /\ options[1].maxFlakes = 1 /\ options[1].minSize = 1
    /\ lastOp.op = "stop" /\ lastOp.running /\ nextTimerId = 3
    /\ Flakes = {1} /\ 1 \notin listeners
    /\ headStyles[1] = 0

\* ----------------------------------------------------------- drift sampling
\* The chaos values the drift is checked for: below, at and above the clamp.
ChaosOptions == {-20, 0, 1, 25, 50, 75, 100, 101, 130}
Draws == 0 .. RandomSteps - 1

InitChaos ==
    /\ InitHost
    /\ options = [i \in Inst |-> DefaultOptions]
    /\ stylePosition = [c \in Containers |-> ""]
    /\ authoredPosition = stylePosition
    /\ sheetPosition = [c \in Containers |-> "static"]
    /\ chaos \in ChaosOptions
    /\ xDeviation = 0 /\ xDeviationEnd = 0

\* createSnowflake draws the two drifts of a flake.
SampleDrift ==
    /\ \E k1, k2 \in Draws :
          /\ xDeviation' = sampleX(chaos, k1)
          /\ xDeviationEnd' = sampleXEnd(chaos, k2)
    /\ lastOp' = [op |-> "drift", inst |-> 1, flake |-> 0, running |-> FALSE, attached |-> FALSE]
    /\ UNCHANGED <<progVars, authoredPosition, positionWriter, chaos>>

NextChaos == SampleDrift

SpecChaos == InitChaos /\ [][NextChaos]_vars

Abs(x) == IF x < 0 THEN -x ELSE x
Max(S) == CHOOSE x \in S : \A y \in S : y <= x
\* The largest magnitudes the two drifts can take for chaos c.
LargestX(c) == Max({Abs(sampleX(c, k)) : k \in Draws})
LargestXEnd(c) == Max({Abs(sampleXEnd(c, k)) : k \in Draws})

\* C13: chaos scaling.  With chaos = 0 both sampled drifts are exactly 0; the
\* largest magnitude a drift can take at chaos = 100 is exactly twice the
\* largest it can take at chaos = 50 (200 px against 100 px for the start
\* phase, 100 px against 50 px for the end phase).
C13_ChaosScaling ==
    /\ chaos = 0 => xDeviation = 0 /\ xDeviationEnd = 0
    /\ LargestX(100) = 2 * LargestX(50) /\ LargestX(50) = 100 * RandomSteps
    /\ LargestXEnd(100) = 2 * LargestXEnd(50) /\ LargestXEnd(50) = 50 * RandomSteps
    /\ chaos = 100 => Abs(xDeviation) <= 2 * LargestX(50)
                      /\ Abs(xDeviationEnd) <= 2 * LargestXEnd(50)

\* A flake sampled at chaos = 100 whose start drift has the largest magnitude.
C13_Witness ==
    /\ lastOp.op = "drift" /\ chaos = 100
    /\ xDeviation = -200 * RandomSteps /\ xDeviationEnd = -100 * RandomSteps

C14_TrackedIffAttached ==
    /\ activeFlakes[1] \subseteq Flakes
    /\ \A f \in Flakes :
          f \in activeFlakes[1] <=>
             /\ flakeOwner[f] = 1
             /\ parentNode[f] # null
             /\ parentNode[f] = containerElement[1]

\* A completion callback has just detached one of three flakes; the two
\* others are still falling.
C14_Witness ==
    /\ lastOp.op = "animationend" /\ lastOp.attached
    /\ parentNode[lastOp.flake] = null
    /\ Cardinality(activeFlakes[1]) = 2

\* The tracked set of instance 1 is at the configured maximum.
AtMaximum ==
    /\ options[1].maxFlakes # nullMax
    /\ Cardinality(activeFlakes[1]) >= options[1].maxFlakes

\* C15: a skipped spawn is silent and loses nothing.  While the instance
\* runs, a spawn tick that finds the tracked set at the maximum, or whose
\* rounded size is <= 0, creates no element and leaves the tracked set, the
\* children of the containers, the style element, both handles and the host's
\* intervals unchanged, with no warning; the spawn interval is still there
\* after it, and a spawn tick with a positive size below the maximum creates
\* exactly one element, tracked and attached to the resolved container.
C15_SkippedSpawnSilent ==
    /\ Running(1) =>
          \A flakeSize \in SizeSamples(1) :
             LET t == createSnowflake(Cur, 1, flakeSize)
                 new == Cardinality(Flakes) + 1 IN
             /\ (AtMaximum \/ flakeSize <= 0) =>
                   /\ DOMAIN t.parentNode = Flakes /\ t.parentNode = parentNode
                   /\ t.activeFlakes = activeFlakes
                   /\ t.styleElement = styleElement /\ t.headStyles = headStyles
                   /\ t.flakeIntervalId = flakeIntervalId
                   /\ t.cleanupIntervalId = cleanupIntervalId
                   /\ t.timers = timers /\ t.warnings = warnings
                   /\ t = Cur
             /\ (~AtMaximum /\ flakeSize > 0) =>
                   /\ DOMAIN t.parentNode = Flakes \cup {new}
                   /\ t.parentNode[new] = containerElement[1]
                   /\ t.activeFlakes[1] = activeFlakes[1] \cup {new}
                   /\ \A f \in Flakes : t.parentNode[f] = parentNode[f]
    /\ (lastOp.op = "spawn" /\ lastOp.flake = 0) =>
          /\ Running(1) /\ SpawnTimers(Cur, 1) # {}
          /\ AtMaximum \/ options[1].minSize <= 0
    /\ (lastOp.op = "spawn" /\ lastOp.flake # 0) =>
          /\ lastOp.flake \in activeFlakes[1]
          /\ lastOp.flake = Cardinality(Flakes)

\* A spawn tick drew size 0 and was skipped, below the maximum of 2, after
\* an earlier flake had been removed.
C15_Witness ==
    /\ lastOp.op = "spawn" /\ lastOp.flake = 0
    /\ options[1].maxFlakes = 2 /\ options[1].minSize = 0
    /\ Cardinality(activeFlakes[1]) = 1 /\ Cardinality(Flakes) = 2

\* C16: a late completion callback is harmless.  A completion callback for
\* an element that is already detached (removed by the bulk clear of a stop,
\* also when a later start has begun a new run) changes nothing but the
\* spent listener: the tracked set, the elements of the new run, the host's
\* intervals, both handles and the style element stay as they are; and in
\* every state removeSnowflake of such an element is the identity.
C16_LateCallbackHarmless ==
    [][ /\ \A f \in listeners :
              parentNode[f] = null => removeSnowflake(Cur, flakeOwner[f], f) = Cur
        /\ (lastOp'.op = "animationend" /\ ~lastOp'.attached) =>
              /\ UNCHANGED <<activeFlakes, parentNode, flakeOwner, timers, nextTimerId,
                             flakeIntervalId, cleanupIntervalId, styleElement,
                             headStyles, containerElement, stylePosition,
                             positionAttr, warnings, queries>>
              /\ listeners' = listeners \ {lastOp'.flake}
      ]_vars

\* The callback of the first run's flake has fired in the second run, whose
\* own flake is still tracked and waiting for its callback.
C16_Witness ==
    /\ lastOp.op = "animationend" /\ ~lastOp.attached /\ lastOp.flake = 1
    /\ Running(1) /\ nextTimerId = 5
    /\ Flakes = {1, 2} /\ activeFlakes[1] = {2} /\ listeners = {2}

\* The height a sweep of instance 1 compares with: the viewport's for
\* document.body, else the rendered height of the container.
EffectiveHeight == IF containerElement[1] = body THEN innerHeight ELSE offsetHeight

\* C17: a sweep removes exactly the stale elements.  For every measurement
\* of the tracked elements, a sweep tick detaches and untracks every tracked
\* element whose top is strictly greater than the effective height plus 50,
\* leaves every other element tracked and attached, changes nothing when the
\* tracked set is empty, and never changes the intervals, the handles, the
\* style element or the position and its record.
C17_SweepRemovesStale ==
    /\ \A top \in [activeFlakes[1] -> TopSamples] :
          LET t == cleanupSnowflakes(Cur, 1, top)
              stale == {f \in activeFlakes[1] : top[f] > EffectiveHeight + SweepMargin} IN
          /\ t.activeFlakes[1] = activeFlakes[1] \ stale
          /\ DOMAIN t.parentNode = Flakes
          /\ \A f \in Flakes :
                t.parentNode[f] = IF f \in stale THEN null ELSE parentNode[f]
          /\ activeFlakes[1] = {} => t = Cur
          /\ t.timers = timers /\ t.nextTimerId = nextTimerId
          /\ t.flakeIntervalId = flakeIntervalId
          /\ t.cleanupIntervalId = cleanupIntervalId
          /\ t.styleElement = styleElement /\ t.headStyles = headStyles
          /\ t.stylePosition = stylePosition /\ t.positionAttr = positionAttr
    /\ lastOp.op = "sweep" => Running(1) /\ SweepTimers(Cur, 1) # {}

\* In the first run on the box a sweep has removed one of two flakes (its
\* callback is still to come) and left the other tracked.
C17_Witness ==
    /\ lastOp.op = "sweep" /\ containerElement[1] = box
    /\ Running(1) /\ nextTimerId = 3
    /\ Flakes = {1, 2} /\ listeners = {1, 2}
    /\ Cardinality(activeFlakes[1]) = 1

\* C18: lifetime of the position record, one instance on its container.
\* A start overrides the inline position to relative and writes the record
\* if and only if the resolved container is not document.body and its
\* computed position is static when the start looks at it (after the stop a
\* start of a running instance begins with); the record is present only
\* while the instance runs with the position overridden, it is absent after
\* every stop, and the position and the attributes of document.body are
\* never modified.
C18_PositionRecord ==
    /\ \A flakeSize \in SizeSamples(1) :
          LET mid == restartIfRunning(Cur, 1)
              t == startSnowflakes(Cur, 1, flakeSize)
              containerEl == t.containerElement[1]
              static == IF mid.stylePosition[containerEl] # ""
                        THEN mid.stylePosition[containerEl] = "static"
                        ELSE mid.sheetPosition[containerEl] = "static" IN
          /\ mid.positionAttr = [c \in Containers |-> null]
          /\ IF containerEl # body /\ static
             THEN /\ t.stylePosition[containerEl] = "relative"
                  /\ t.positionAttr[containerEl] =
                        IF mid.stylePosition[containerEl] = ""
                        THEN "static" ELSE mid.stylePosition[containerEl]
                  /\ \A c \in Containers \ {containerEl} :
                        /\ t.stylePosition[c] = mid.stylePosition[c]
                        /\ t.positionAttr[c] = null
             ELSE /\ t.stylePosition = mid.stylePosition
                  /\ t.positionAttr = mid.positionAttr
    /\ \A c \in Containers :
          positionAttr[c] # null =>
             /\ Running(1) /\ containerElement[1] = c
             /\ stylePosition[c] = "relative"
    /\ lastOp.op = "stop" => positionAttr = [c \in Containers |-> null]
    /\ positionAttr[body] = null /\ stylePosition[body] = authoredPosition[body]

\* A start of the running instance has written the record on the static box
\* again, after the stop it began with had removed it.
C18_Witness ==
    /\ lastOp.op = "start" /\ lastOp.running /\ nextTimerId = 5
    /\ containerElement[1] = box /\ authoredPosition[box] = ""
    /\ stylePosition[box] = "relative" /\ positionAttr[box] = "static"

\* ------------------------------------------------------------ a single run
\* One run that is never stopped: the instance has a maximum of 1 or 2 and
\* positive sizes, is started once and then only the host acts.  The spawn
\* interval keeps firing (setInterval), and the fall animation of an attached
\* flake is finite, so its animationend is dispatched.
InitLive ==
    /\ InitHost
    /\ \E c \in ContainerOptions, m \in {1, 2} :
          options = [i \in Inst |-> IF i = 1 THEN Options(c, m, <<1, 1>>) ELSE DefaultOptions]
    /\ stylePosition = [c \in Containers |-> ""]
    /\ authoredPosition = stylePosition
    /\ sheetPosition = [c \in Containers |-> "static"]
    /\ InitDrift

FirstStart == ~Running(1) /\ StartSnowflakes(1)

\* animationend of a flake that is still attached.
Completion(flake) ==
    /\ flake \in Flakes /\ parentNode[flake] # null
    /\ AnimationEnd(flake)

NextLive ==
    \/ FirstStart
    \/ SpawnTick(1)
    \/ SweepTick(1)
    \/ \E flake \in listeners : AnimationEnd(flake)

SpecLive ==
    /\ InitLive /\ [][NextLive]_vars
    /\ WF_vars(SpawnTick(1))
    /\ \A flake \in 1 .. MaxFlakeId : WF_vars(Completion(flake))

\* C19: spawning never stalls for good.  While the instance stays running
\* with a maximum N >= 1 and positive sizes, if spawn ticks keep coming and
\* the completion callback of every attached element comes, every tracked
\* element is eventually detached and untracked, and as long as the host can
\* hold another element a new one is eventually created.
C19_SpawningNeverStalls ==
    /\ \A f \in 1 .. MaxFlakeId :
          (f \in activeFlakes[1]) ~>
             (f \in Flakes /\ f \notin activeFlakes[1] /\ parentNode[f] = null)
    /\ \A n \in 0 .. MaxFlakeId - 1 :
          (Running(1) /\ Cardinality(Flakes) = n) ~> (Cardinality(Flakes) > n)

\* With a maximum of 1 the run has replaced every completed flake by a new
\* one, up to the last element the host holds.
C19_Witness ==
    /\ options[1].maxFlakes = 1 /\ Running(1)
    /\ lastOp.op = "spawn" /\ lastOp.flake = MaxFlakeId
    /\ activeFlakes[1] = {MaxFlakeId}
    /\ \A f \in 1 .. MaxFlakeId - 1 : parentNode[f] = null /\ f \notin listeners

\* ------------------------------------------------- the order inside a call
\* The states a stopSnowflakes call passes through, statement by statement.
stopSnowflakesSteps(s, i) ==
    LET a == clearTimers(s, i)
        b == removeAllSnowflakes(a, i)
        c == removeStyles(b, i)
        d == restorePosition(c, i) IN
    <<s, a, b, c, d>>

\* Mutant: the style element is injected after the first flake is attached.
startSnowflakesSteps_stylesLast(s, i, flakeSize) ==
    LET stop == IF s.flakeIntervalId[i] # nullId THEN stopSnowflakesSteps(s, i) ELSE <<s>>
        a == stop[Len(stop)]
        b == removeAllSnowflakes(a, i)
        c == overridePosition(b, i)
        d == createSnowflake(c, i, flakeSize)
        e == addStyles(d, i)
        f == scheduleTimers(e, i) IN
    stop \o <<b, c, d, e, f>>

\* The states a startSnowflakes call passes through, statement by statement,
\* those of the stopSnowflakes it begins with when running included.
startSnowflakesSteps(s, i, flakeSize) ==
    LET stop == IF s.flakeIntervalId[i] # nullId THEN stopSnowflakesSteps(s, i) ELSE <<s>>
        a == stop[Len(stop)]
        b == removeAllSnowflakes(a, i)
        c == addStyles(b, i)
        d == overridePosition(c, i)
        e == createSnowflake(d, i, flakeSize)
        f == scheduleTimers(e, i) IN
    stop \o <<b, c, d, e, f>>

\* Instance 1 has a flake, tracked or attached, in s.
HasFlakes(s) == s.activeFlakes[1] # {} \/ Attached(s, 1) # {}

\* The style element of instance 1 is in the head in s.
HasStyle(s) == s.styleElement[1] /\ s.headStyles[1] = 1

\* C21: tracked elements exist only inside a run.  In every state reached by
\* start, stop, the ticks and the completion callbacks, a non-empty tracked
\* set means the style element of the instance is in the head and both
\* intervals are active; and inside a start or a stop call the style element
\* is injected before the first element is attached and removed only after
\* the last one is detached: no statement leaves an element without style.
C21_FlakesOnlyInRun ==
    /\ HasFlakes(Cur) =>
          /\ HasStyle(Cur)
          /\ flakeIntervalId[1] # nullId /\ cleanupIntervalId[1] # nullId
          /\ SpawnTimers(Cur, 1) # {} /\ SweepTimers(Cur, 1) # {}
    /\ LET steps == stopSnowflakesSteps(Cur, 1) IN
          /\ steps[Len(steps)] = stopSnowflakes(Cur, 1)
          /\ \A k \in 1 .. Len(steps) : HasFlakes(steps[k]) => HasStyle(steps[k])
    /\ \A flakeSize \in SizeSamples(1) :
          LET steps == startSnowflakesSteps(Cur, 1, flakeSize) IN
          /\ steps[Len(steps)] = startSnowflakes(Cur, 1, flakeSize)
          /\ \A k \in 1 .. Len(steps) : HasFlakes(steps[k]) => HasStyle(steps[k])

\* In its second run the instance has two flakes in the container, under
\* its style element and with both intervals of that run active.
C21_Witness ==
    /\ lastOp.op = "spawn" /\ lastOp.flake = 3 /\ nextTimerId = 5
    /\ activeFlakes[1] = {2, 3} /\ parentNode[1] = null
    /\ styleElement[1] /\ flakeIntervalId[1] = 3 /\ cleanupIntervalId[1] = 4

\* ------------------------------------------------ a page that clears flakes
\* The page detaches a flake itself (container.innerHTML = '', flake.remove()):
\* its parentNode becomes null and the composable is not told.
HostDetach(flake) ==
    /\ flake \in Flakes /\ parentNode[flake] # null
    /\ Install([Cur EXCEPT !.parentNode[flake] = null])
    /\ lastOp' = Op("detach", flakeOwner[flake], flake, TRUE)
    /\ UNCHANGED <<authoredPosition, positionWriter, driftVars>>

\* The sweep measures a detached flake too; whatever top it reads,
\* removeSnowflake returns at its parentNode guard.
NextDetach ==
    \/ Next
    \/ \E flake \in Flakes : HostDetach(flake)

\* One instance with a maximum of 1 or 2 on a page that may detach flakes.
SpecDetach == InitLive /\ [][NextDetach]_vars

\* C22: the tracked set follows a detach by the page.  After the page has
\* detached an element, the completion callback of that element leaves it
\* untracked, and a sweep tick leaves no detached element in the tracked
\* set, so that only attached elements count against maxFlakes.
C22_HostDetachUntracked ==
    [][ /\ lastOp'.op = "animationend" => lastOp'.flake \notin activeFlakes'[1]
        /\ lastOp'.op = "sweep" =>
              \A f \in activeFlakes'[1] : parentNode'[f] # null
      ]_vars

====
